---- MODULE Spec2Model ----
(***************************************************************************)
(* CopilotAgent (src/src/copilot_studio/copilot_agent.py): one exchange    *)
(* with a Copilot Studio bot over the Direct Line wire client.             *)
(*                                                                         *)
(* Python values are encoded as follows.  A dict is a TLA+ record (a       *)
(* function on its keys), so `k in d` is k \in DOMAIN d and the empty dict *)
(* is <<>>.  A list is a sequence.  Strings are strings; a JSON object     *)
(* whose inside the code never reads (an adaptive card's content, a card   *)
(* response value) is a string token.  None is the string None where a     *)
(* string is expected and the record NoneDict where a dict is expected     *)
(* (TLC cannot compare a record with a string).                            *)
(***************************************************************************)
EXTENDS Integers, Sequences, FiniteSets, TLC

VARIABLES
    directline_client,  \* agent.directline_client is set (TRUE) or None (FALSE)
    pc,                 \* per exchange: where CopilotAgent.query stands
    args,               \* per exchange: the arguments query was called with
    conversation_id,    \* per exchange: query's local conversation_id
    current_watermark,  \* per exchange: post_message_and_poll's cursor
    collected_data,     \* per exchange: post_message_and_poll's collected_data
    polls,              \* per exchange: get_activities calls made so far
    result,             \* per exchange: what query returned (<<>> before)
    error,              \* per exchange: the exception query raised ("" if none)
    calls,              \* per exchange: the wire-client calls made, in order
    fetched,            \* per exchange: the last get_activities response
    reported,           \* per exchange: the watermark part of every response
    fn,                 \* a direct call of a pure method: which one
    fnArgs,             \* ... its arguments
    fnRet,              \* ... its return value
    fnDone,             \* ... whether it has returned
    server_initialized, \* main.py's global server_initialized
    copilot_agent       \* main.py's global copilot_agent is set (TRUE) or None

vars == <<directline_client, pc, args, conversation_id, current_watermark,
          collected_data, polls, result, error, calls, fetched, reported,
          fn, fnArgs, fnRet, fnDone, server_initialized, copilot_agent>>

exchangeVars == <<directline_client, pc, args, conversation_id,
                  current_watermark, collected_data, polls, result, error,
                  calls, fetched, reported>>

fnVars == <<fn, fnArgs, fnRet, fnDone>>

toolVars == <<server_initialized, copilot_agent>>

(***************************************************************************)
(* Bounds of the model.                                                    *)
(***************************************************************************)
\* get_activities calls one exchange may make before the model stops it
MaxPolls == 3
\* activities in one get_activities response
MaxBatch == 2
\* get_activities calls each of two concurrent exchanges may make
MaxConcurrentPolls == 2
\* activities in a batch given to parse_response directly
MaxParseBatch == 3

(***************************************************************************)
(* Python values.                                                          *)
(***************************************************************************)
None == "None"

NoneDict == [py_none |-> TRUE]

EmptyDict == <<>>

\* bool(s) of an Optional[str]
Truthy(s) == s # None /\ s # ""

\* bool(d) of an Optional[dict]
DictTruthy(d) == "py_none" \notin DOMAIN d /\ DOMAIN d # {}

\* d.get(k, default)
Get(d, k, default) == IF k \in DOMAIN d THEN d[k] ELSE default

\* all sequences over S of length at most n
SeqUpTo(S, n) == UNION {[1..k -> S] : k \in 0..n}

Range(s) == {s[i] : i \in DOMAIN s}

(***************************************************************************)
(* Protocol constants and the exceptions of copilot_agent.py.              *)
(***************************************************************************)
DynamicPlanFinished == "DynamicPlanFinished"

AdaptiveCardType == "application/vnd.microsoft.card.adaptive"

\* Exception("DirectLine client is not initialized")
NotInitialized == "DirectLine client is not initialized"

\* Exception("Invalid response from DirectLine Bot")
InvalidResponse == "Invalid response from DirectLine Bot"

\* whatever a DirectLineClient primitive raises when it fails
TransportError == "TransportError"

\* asyncio.CancelledError, raised at an await of a task that is cancelled
CancelledError == "CancelledError"

\* `in None` and d[k] on a missing key raise these instead
TypeError == "TypeError"

KeyError == "KeyError"

(***************************************************************************)
(* build_payload                                                           *)
(***************************************************************************)
\* a slip: a message that is not empty goes out as text, card response or not
build_payload_text_first(message, message_data, cid) ==
    LET base == [type |-> "message", from |-> [id |-> "user"]]
        body == IF message = ""
                   /\ DictTruthy(message_data)
                   /\ "adaptive_card_response" \in DOMAIN message_data
                THEN [value |-> message_data["adaptive_card_response"]]
                ELSE [text |-> message]
        conv == IF Truthy(cid) THEN [conversationId |-> cid] ELSE EmptyDict
    IN  (base @@ body) @@ conv

\* a slip: an empty message leaves the payload without text
build_payload_no_empty_text(message, message_data, cid) ==
    LET base == [type |-> "message", from |-> [id |-> "user"]]
        body == IF DictTruthy(message_data)
                   /\ "adaptive_card_response" \in DOMAIN message_data
                THEN [value |-> message_data["adaptive_card_response"]]
                ELSE IF message # "" THEN [text |-> message] ELSE EmptyDict
        conv == IF Truthy(cid) THEN [conversationId |-> cid] ELSE EmptyDict
    IN  (base @@ body) @@ conv

\* a slip: `if conversation_id is not None`
build_payload_id_not_none(message, message_data, cid) ==
    LET base == [type |-> "message", from |-> [id |-> "user"]]
        body == IF DictTruthy(message_data)
                   /\ "adaptive_card_response" \in DOMAIN message_data
                THEN [value |-> message_data["adaptive_card_response"]]
                ELSE [text |-> message]
        conv == IF cid # None THEN [conversationId |-> cid] ELSE EmptyDict
    IN  (base @@ body) @@ conv

build_payload(message, message_data, cid) ==
    LET base == [type |-> "message", from |-> [id |-> "user"]]
        body == IF DictTruthy(message_data)
                   /\ "adaptive_card_response" \in DOMAIN message_data
                THEN [value |-> message_data["adaptive_card_response"]]
                ELSE [text |-> message]
        conv == IF Truthy(cid) THEN [conversationId |-> cid] ELSE EmptyDict
    IN  (base @@ body) @@ conv

(***************************************************************************)
(* The completion test of post_message_and_poll's loop.                    *)
(***************************************************************************)
TurnComplete(activities) ==
    \E i \in DOMAIN activities :
        LET activity == activities[i] IN
        \/ /\ Get(activity, "type", None) = "event"
           /\ Get(activity, "name", None) = DynamicPlanFinished
        \/ /\ Get(activity, "type", None) = "message"
           /\ Get(Get(activity, "from", EmptyDict), "role", None) = "bot"

(***************************************************************************)
(* parse_response                                                          *)
(***************************************************************************)
\* a slip: the sender id is not looked at
SkippedNoUserIdCheck(activity) ==
    \/ Get(activity, "type", None) # "message"
    \/ Get(Get(activity, "from", EmptyDict), "role", None) # "bot"

\* the test that makes the loop `continue`
Skipped(activity) ==
    \/ Get(activity, "type", None) # "message"
    \/ Get(Get(activity, "from", EmptyDict), "id", None) = "user"
    \/ Get(Get(activity, "from", EmptyDict), "role", None) # "bot"

\* a slip: the first text found is kept
ParseActivityFirstText(res, activity) ==
    IF Skipped(activity) THEN res
    ELSE
        LET suggested_actions ==
                Get(Get(activity, "suggestedActions", EmptyDict), "actions", <<>>)
            attachments == Get(activity, "attachments", <<>>)
            r1 == IF "text" \in DOMAIN activity /\ res.text = ""
                  THEN [res EXCEPT !.text = activity.text]
                  ELSE res
            r2 == IF suggested_actions # <<>>
                  THEN [r1 EXCEPT !.suggested_actions = suggested_actions]
                  ELSE r1
        IN  IF /\ attachments # <<>>
               /\ Get(attachments[1], "contentType", None) = AdaptiveCardType
            THEN [r2 EXCEPT !.adaptive_card = Get(attachments[1], "content", "{}")]
            ELSE r2

\* a slip: the actions are replaced by whatever the activity has, an empty
\* or missing list included
ParseActivityActionsAlways(res, activity) ==
    IF Skipped(activity) THEN res
    ELSE
        LET suggested_actions ==
                Get(Get(activity, "suggestedActions", EmptyDict), "actions", <<>>)
            attachments == Get(activity, "attachments", <<>>)
            r1 == IF "text" \in DOMAIN activity
                  THEN [res EXCEPT !.text = activity.text]
                  ELSE res
            r2 == [r1 EXCEPT !.suggested_actions = suggested_actions]
        IN  IF /\ attachments # <<>>
               /\ Get(attachments[1], "contentType", None) = AdaptiveCardType
            THEN [r2 EXCEPT !.adaptive_card = Get(attachments[1], "content", "{}")]
            ELSE r2

\* one iteration of the loop over the activities
ParseActivity(res, activity) ==
    IF Skipped(activity) THEN res
    ELSE
        LET suggested_actions ==
                Get(Get(activity, "suggestedActions", EmptyDict), "actions", <<>>)
            attachments == Get(activity, "attachments", <<>>)
            r1 == IF "text" \in DOMAIN activity
                  THEN [res EXCEPT !.text = activity.text]
                  ELSE res
            r2 == IF suggested_actions # <<>>
                  THEN [r1 EXCEPT !.suggested_actions = suggested_actions]
                  ELSE r1
        IN  IF /\ attachments # <<>>
               /\ Get(attachments[1], "contentType", None) = AdaptiveCardType
            THEN [r2 EXCEPT !.adaptive_card = Get(attachments[1], "content", "{}")]
            ELSE r2

RECURSIVE ParseLoop(_, _, _)
ParseLoop(res, activities, i) ==
    IF i > Len(activities) THEN res
    ELSE ParseLoop(ParseActivity(res, activities[i]), activities, i + 1)

\* a slip: a batch in which no activity passes the skip test is refused
parse_response_strict(response_data) ==
    IF ~DictTruthy(response_data) THEN [ok |-> FALSE, error |-> InvalidResponse]
    ELSE LET data == Get(response_data, "data", EmptyDict) IN
         IF "py_none" \in DOMAIN data THEN [ok |-> FALSE, error |-> TypeError]
         ELSE IF "activities" \notin DOMAIN data
         THEN [ok |-> FALSE, error |-> InvalidResponse]
         ELSE IF \A i \in DOMAIN data.activities : Skipped(data.activities[i])
         THEN [ok |-> FALSE, error |-> InvalidResponse]
         ELSE IF "watermark" \notin DOMAIN response_data
         THEN [ok |-> FALSE, error |-> KeyError]
         ELSE [ok |-> TRUE,
               value |-> ParseLoop([text |-> "",
                                    adaptive_card |-> None,
                                    suggested_actions |-> <<>>,
                                    watermark |-> response_data.watermark],
                                   data.activities, 1)]

\* [ok |-> TRUE, value |-> the result] or [ok |-> FALSE, error |-> the exception]
parse_response(response_data) ==
    IF ~DictTruthy(response_data) THEN [ok |-> FALSE, error |-> InvalidResponse]
    ELSE LET data == Get(response_data, "data", EmptyDict) IN
         IF "py_none" \in DOMAIN data THEN [ok |-> FALSE, error |-> TypeError]
         ELSE IF "activities" \notin DOMAIN data
         THEN [ok |-> FALSE, error |-> InvalidResponse]
         ELSE IF "watermark" \notin DOMAIN response_data
         THEN [ok |-> FALSE, error |-> KeyError]
         ELSE [ok |-> TRUE,
               value |-> ParseLoop([text |-> "",
                                    adaptive_card |-> None,
                                    suggested_actions |-> <<>>,
                                    watermark |-> response_data.watermark],
                                   data.activities, 1)]

(***************************************************************************)
(* The inputs of the model: callers' arguments and the wire client's       *)
(* answers.                                                                *)
(***************************************************************************)
\* the exchanges (calls of query) the model follows
Procs == {1, 2}

Messages == {"hello", "", "bye"}

\* message_data: None, {}, a card response, a dict without one
MessageData ==
    {NoneDict, EmptyDict,
     [adaptive_card_response |-> "choice1"],
     [adaptive_card_response |-> "{}"],
     [other |-> "x"],
     [adaptive_card_response |-> "choice2", other |-> "x"]}

\* conversation ids a caller may pass
CallerConversationIds == {None, "", "c1"}

\* conversation ids DirectLineClient.start_conversation may return
MintedConversationIds == {"n1", "n2"}

\* watermarks a caller may pass
CallerWatermarks == {None, "1"}

\* watermarks a get_activities response may carry
ServerWatermarks == {"1", "2"}

BotMessage == [type |-> "message", from |-> [id |-> "bot1", role |-> "bot"],
               text |-> "Hi"]

PlanFinishedEvent == [type |-> "event", name |-> DynamicPlanFinished]

OtherEvent == [type |-> "event", name |-> "DynamicPlanStepFinished",
               from |-> [id |-> "bot1", role |-> "bot"]]

UserEcho == [type |-> "message", from |-> [id |-> "user", role |-> "user"],
             text |-> "hello"]

\* the activities a get_activities response is made of
PollActivities == {BotMessage, PlanFinishedEvent, OtherEvent, UserEcho}

\* a get_activities response: {"activities": [...], "watermark": w}, either
\* key possibly missing
Responses ==
    {a @@ w : a \in {EmptyDict} \cup
                    {[activities |-> b] : b \in SeqUpTo(PollActivities, MaxBatch)},
              w \in {EmptyDict} \cup
                    {[watermark |-> x] : x \in ServerWatermarks}}

\* the arguments of query
QueryArgs ==
    [message : {"hello"},
     conversation_id : CallerConversationIds,
     watermark : CallerWatermarks,
     message_data : {NoneDict, [adaptive_card_response |-> "choice1"]}]

IdleArgs == [message |-> "", conversation_id |-> None, watermark |-> None,
             message_data |-> NoneDict]

(***************************************************************************)
(* post_message_and_poll and query, cut at their awaits.                   *)
(***************************************************************************)
\* a slip: the cursor takes data.get("watermark"), None when there is none
NextWatermarkOrNone(current, data) == Get(data, "watermark", None)

\* lines 124-125: the cursor after a response
NextWatermark(current, data) ==
    IF "watermark" \in DOMAIN data THEN data.watermark ELSE current

\* a slip: only the activities that complete the turn are kept
CollectedMatchingOnly(data) ==
    IF "activities" \notin DOMAIN data THEN data
    ELSE [data EXCEPT !.activities =
              SelectSeq(@, LAMBDA activity : TurnComplete(<<activity>>))]

\* line 141: what a completing response leaves in collected_data
Collected(data) == data

\* a slip: the watermark returned is the completing response's own
PollReturnResponseWatermark(collected, watermark) ==
    [data |-> collected, watermark |-> Get(collected, "watermark", None)]

\* line 147: what post_message_and_poll returns
PollReturn(collected, watermark) == [data |-> collected, watermark |-> watermark]

\* line 233: the result of query
QueryResult(parsed, cid) == parsed @@ [conversation_id |-> cid]

\* a slip: `if conversation_id is None`
NeedsConversationNoneOnly(cid) == cid = None

\* line 221: query has to start a conversation
NeedsConversation(cid) == ~Truthy(cid)

Raise(p, e) ==
    /\ pc' = [pc EXCEPT ![p] = "failed"]
    /\ error' = [error EXCEPT ![p] = e]

\* the wire client is called; ok tells whether it returned or raised
Call(p, c, ok) == calls' = [calls EXCEPT ![p] = Append(@, c @@ [ok |-> ok])]

\* query line 221-222 with no conversation id, start_conversation line 47-48
StartNotInitialized(p) ==
    /\ pc[p] = "query"
    /\ NeedsConversation(conversation_id[p])
    /\ ~directline_client
    /\ Raise(p, NotInitialized)
    /\ UNCHANGED <<directline_client, args, conversation_id, current_watermark,
                   collected_data, polls, result, calls, fetched, reported,
                   fnVars,
                   toolVars>>

\* a slip: start_conversation without its check of the client
StartConversationUnchecked(p) ==
    /\ pc[p] = "query"
    /\ NeedsConversation(conversation_id[p])
    /\ \E id \in MintedConversationIds :
           /\ Call(p, [op |-> "start_conversation", returned |-> id], TRUE)
           /\ conversation_id' = [conversation_id EXCEPT ![p] = id]
    /\ pc' = [pc EXCEPT ![p] = "post"]
    /\ UNCHANGED <<directline_client, args, current_watermark, collected_data,
                   polls, result, error, fetched, reported, fnVars,
                   toolVars>>

\* query line 221-222, start_conversation line 50: the client returns an id
StartConversation(p) ==
    /\ pc[p] = "query"
    /\ NeedsConversation(conversation_id[p])
    /\ directline_client
    /\ \E id \in MintedConversationIds :
           /\ Call(p, [op |-> "start_conversation", returned |-> id], TRUE)
           /\ conversation_id' = [conversation_id EXCEPT ![p] = id]
    /\ pc' = [pc EXCEPT ![p] = "post"]
    /\ UNCHANGED <<directline_client, args, current_watermark, collected_data,
                   polls, result, error, fetched, reported, fnVars,
                   toolVars>>

\* start_conversation line 50: the client raises
StartConversationFails(p) ==
    /\ pc[p] = "query"
    /\ NeedsConversation(conversation_id[p])
    /\ directline_client
    /\ Call(p, [op |-> "start_conversation"], FALSE)
    /\ Raise(p, TransportError)
    /\ UNCHANGED <<directline_client, args, conversation_id, current_watermark,
                   collected_data, polls, result, fetched, reported, fnVars,
                   toolVars>>

\* post_message_and_poll is entered: right away when the caller gave a
\* conversation id, after start_conversation otherwise
AtPost(p) ==
    \/ pc[p] = "post"
    \/ pc[p] = "query" /\ ~NeedsConversation(conversation_id[p])

\* post_message_and_poll line 104-105
PostNotInitialized(p) ==
    /\ AtPost(p)
    /\ ~directline_client
    /\ Raise(p, NotInitialized)
    /\ UNCHANGED <<directline_client, args, conversation_id, current_watermark,
                   collected_data, polls, result, calls, fetched, reported,
                   fnVars,
                   toolVars>>

\* post_message_and_poll line 108-116: the payload is built and posted
PostActivity(p) ==
    /\ AtPost(p)
    /\ directline_client
    /\ Call(p, [op |-> "post_activity",
                conversation_id |-> conversation_id[p],
                activity |-> build_payload(args[p].message, args[p].message_data,
                                           conversation_id[p])], TRUE)
    /\ current_watermark' = [current_watermark EXCEPT ![p] = args[p].watermark]
    /\ pc' = [pc EXCEPT ![p] = "poll"]
    /\ UNCHANGED <<directline_client, args, conversation_id, collected_data,
                   polls, result, error, fetched, reported, fnVars,
                   toolVars>>

\* post_message_and_poll line 111: the client raises
PostActivityFails(p) ==
    /\ AtPost(p)
    /\ directline_client
    /\ Call(p, [op |-> "post_activity",
                conversation_id |-> conversation_id[p],
                activity |-> build_payload(args[p].message, args[p].message_data,
                                           conversation_id[p])], FALSE)
    /\ Raise(p, TransportError)
    /\ UNCHANGED <<directline_client, args, conversation_id, current_watermark,
                   collected_data, polls, result, fetched, reported, fnVars,
                   toolVars>>

\* a slip: the fetch uses the conversation id the caller passed
GetCallCallerId(p, ok) ==
    /\ pc[p] = "poll"
    /\ polls[p] < MaxPolls
    /\ polls' = [polls EXCEPT ![p] = @ + 1]
    /\ Call(p, [op |-> "get_activities",
                conversation_id |-> args[p].conversation_id,
                watermark |-> current_watermark[p]], ok)

\* a slip: the cursor is kept in a field of the agent, which all its
\* exchanges share, instead of a local variable
GetCallSharedCursor(p, ok) ==
    /\ pc[p] = "poll"
    /\ polls[p] < MaxPolls
    /\ polls' = [polls EXCEPT ![p] = @ + 1]
    /\ Call(p, [op |-> "get_activities",
                conversation_id |-> conversation_id[p],
                watermark |-> current_watermark[1]], ok)

GetCall(p, ok) ==
    /\ pc[p] = "poll"
    /\ polls[p] < MaxPolls
    /\ polls' = [polls EXCEPT ![p] = @ + 1]
    /\ Call(p, [op |-> "get_activities",
                conversation_id |-> conversation_id[p],
                watermark |-> current_watermark[p]], ok)

\* one iteration of the loop, line 118-145, and when it completes the turn
\* the return (147), query's parse_response (230) and its result (233-235);
\* responses is what the client may return
GetActivitiesFrom(p, responses) ==
    /\ GetCall(p, TRUE)
    /\ \E data \in responses :
        LET watermark == NextWatermark(current_watermark[p], data)
            activities == Get(data, "activities", <<>>)
            collected == Collected(data)
            parsed == parse_response(PollReturn(collected, watermark))
        IN  /\ fetched' = [fetched EXCEPT ![p] = data]
            /\ reported' = [reported EXCEPT ![p] =
                   Append(@, [k \in DOMAIN data \cap {"watermark"} |-> data[k]])]
            /\ current_watermark' = [current_watermark EXCEPT ![p] = watermark]
            /\ IF ~TurnComplete(activities)
               THEN /\ pc' = [pc EXCEPT ![p] = "sleep"]
                    /\ UNCHANGED <<collected_data, result, error>>
               ELSE /\ collected_data' = [collected_data EXCEPT ![p] = collected]
                    /\ IF parsed.ok
                       THEN /\ result' = [result EXCEPT ![p] =
                                   QueryResult(parsed.value, conversation_id[p])]
                            /\ pc' = [pc EXCEPT ![p] = "done"]
                            /\ UNCHANGED error
                       ELSE /\ Raise(p, parsed.error)
                            /\ UNCHANGED result
    /\ UNCHANGED <<directline_client, args, conversation_id, fnVars,
                   toolVars>>

\* line 119: the client returns any of its responses
GetActivities(p) == GetActivitiesFrom(p, Responses)

\* a slip: a failed fetch is swallowed and the loop goes on
GetActivitiesFailureRetried(p) ==
    /\ GetCall(p, FALSE)
    /\ pc' = [pc EXCEPT ![p] = "sleep"]
    /\ UNCHANGED <<directline_client, args, conversation_id, current_watermark,
                   collected_data, result, error, fetched, reported, fnVars,
                   toolVars>>

\* line 119: the client raises
GetActivitiesFails(p) ==
    /\ GetCall(p, FALSE)
    /\ Raise(p, TransportError)
    /\ UNCHANGED <<directline_client, args, conversation_id, current_watermark,
                   collected_data, result, fetched, reported, fnVars,
                   toolVars>>

\* a slip: the loop gives up after one wait and query parses what the
\* poller has collected
SleepGivesUp(p) ==
    /\ pc[p] = "sleep"
    /\ Raise(p, parse_response(PollReturn(collected_data[p],
                                          current_watermark[p])).error)
    /\ UNCHANGED <<directline_client, args, conversation_id, current_watermark,
                   collected_data, polls, result, calls, fetched, reported,
                   fnVars, toolVars>>

\* line 145: asyncio.sleep(1) returns
Sleep(p) ==
    /\ pc[p] = "sleep"
    /\ pc' = [pc EXCEPT ![p] = "poll"]
    /\ UNCHANGED <<directline_client, args, conversation_id, current_watermark,
                   collected_data, polls, result, error, calls, fetched,
                   reported, fnVars,
                   toolVars>>

Step(p) ==
    \/ StartNotInitialized(p)
    \/ StartConversation(p)
    \/ StartConversationFails(p)
    \/ PostNotInitialized(p)
    \/ PostActivity(p)
    \/ PostActivityFails(p)
    \/ GetActivities(p)
    \/ GetActivitiesFails(p)
    \/ Sleep(p)

FnIdle ==
    /\ fn = "none"
    /\ fnArgs = EmptyDict
    /\ fnRet = EmptyDict
    /\ fnDone = FALSE

\* query is called on the exchanges of `active`, the others never run
ExchangeInit(active) ==
    /\ directline_client \in BOOLEAN
    /\ args \in [Procs -> QueryArgs \cup {IdleArgs}]
    /\ \A p \in Procs : args[p] = IdleArgs <=> p \notin active
    /\ pc = [p \in Procs |-> IF p \in active THEN "query" ELSE "off"]
    /\ conversation_id = [p \in Procs |-> args[p].conversation_id]
    /\ current_watermark = [p \in Procs |-> None]
    /\ collected_data = [p \in Procs |-> NoneDict]
    /\ polls = [p \in Procs |-> 0]
    /\ result = [p \in Procs |-> EmptyDict]
    /\ error = [p \in Procs |-> ""]
    /\ calls = [p \in Procs |-> <<>>]
    /\ fetched = [p \in Procs |-> EmptyDict]
    /\ reported = [p \in Procs |-> <<>>]

\* main.py is not loaded: the agent is used on its own
ToolIdle ==
    /\ server_initialized = FALSE
    /\ copilot_agent = FALSE

\* one exchange on its own
Init ==
    /\ ExchangeInit({1})
    /\ FnIdle
    /\ ToolIdle

Next == \E p \in Procs : Step(p)

Spec == Init /\ [][Next]_vars

(***************************************************************************)
(* build_payload called on its own.                                        *)
(***************************************************************************)
PayloadArgs ==
    [message : Messages,
     message_data : MessageData,
     conversation_id : CallerConversationIds \cup MintedConversationIds]

PayloadInit ==
    /\ ExchangeInit({})
    /\ ToolIdle
    /\ fn = "build_payload"
    /\ fnArgs \in PayloadArgs
    /\ fnRet = EmptyDict
    /\ fnDone = FALSE

BuildPayload ==
    /\ fn = "build_payload"
    /\ ~fnDone
    /\ fnRet' = build_payload(fnArgs.message, fnArgs.message_data,
                              fnArgs.conversation_id)
    /\ fnDone' = TRUE
    /\ UNCHANGED <<exchangeVars, fn, fnArgs, toolVars>>

PayloadNext == BuildPayload

SpecPayload == PayloadInit /\ [][PayloadNext]_vars

(***************************************************************************)
(* parse_response called on its own.                                       *)
(***************************************************************************)
ActionA == [title |-> "A", value |-> "a"]

ActionB == [title |-> "B", value |-> "b"]

Card(content) == [contentType |-> AdaptiveCardType, content |-> content]

HeroCard == [contentType |-> "application/vnd.microsoft.card.hero",
             content |-> "hero"]

\* a bot message with everything the parser reads
RichBotMessage ==
    [type |-> "message", from |-> [id |-> "bot1", role |-> "bot"],
     text |-> "Bye",
     suggestedActions |-> [actions |-> <<ActionA>>],
     attachments |-> <<Card("card1")>>]

\* a bot message with no text, no actions, and its card second
BareBotMessage ==
    [type |-> "message", from |-> [role |-> "bot"],
     suggestedActions |-> [actions |-> <<>>],
     attachments |-> <<HeroCard, Card("card2")>>]

\* sent by the id "user" under the role "bot"
UserIdBotRole ==
    [type |-> "message", from |-> [id |-> "user", role |-> "bot"],
     text |-> "mine",
     suggestedActions |-> [actions |-> <<ActionB>>],
     attachments |-> <<Card("card3")>>]

\* a message of another role
OtherRole ==
    [type |-> "message", from |-> [id |-> "agent7", role |-> "channel"],
     text |-> "theirs",
     suggestedActions |-> [actions |-> <<ActionB>>],
     attachments |-> <<Card("card3")>>]

\* a message with no sender
NoSender ==
    [type |-> "message", text |-> "anonymous",
     suggestedActions |-> [actions |-> <<ActionB>>],
     attachments |-> <<Card("card3")>>]

\* a bot activity that is no message
BotEvent ==
    [type |-> "event", name |-> DynamicPlanFinished,
     from |-> [id |-> "bot1", role |-> "bot"],
     text |-> "planned",
     suggestedActions |-> [actions |-> <<ActionB>>],
     attachments |-> <<Card("card3")>>]

ParseActivities ==
    {BotMessage, RichBotMessage, BareBotMessage, UserEcho, UserIdBotRole,
     OtherRole, NoSender, BotEvent}

ParseWatermarks == {None, "5"}

\* what parse_response may be given: None, {}, a dict with no data, with
\* data None, with data that has no activities, with no watermark, and the
\* well-formed ones
ParseInputs ==
    {NoneDict, EmptyDict,
     [watermark |-> "5"],
     [data |-> NoneDict, watermark |-> "5"],
     [data |-> [watermark |-> "5"], watermark |-> "5"],
     [data |-> [activities |-> <<BotMessage>>]]}
    \cup {[data |-> [activities |-> b], watermark |-> w] :
              b \in SeqUpTo(ParseActivities, MaxParseBatch),
              w \in ParseWatermarks}

ParseInit ==
    /\ ExchangeInit({})
    /\ ToolIdle
    /\ fn = "parse_response"
    /\ fnArgs \in ParseInputs
    /\ fnRet = EmptyDict
    /\ fnDone = FALSE

ParseResponse ==
    /\ fn = "parse_response"
    /\ ~fnDone
    /\ fnRet' = parse_response(fnArgs)
    /\ fnDone' = TRUE
    /\ UNCHANGED <<exchangeVars, fn, fnArgs, toolVars>>

ParseNext == ParseResponse

SpecParse == ParseInit /\ [][ParseNext]_vars

(***************************************************************************)
(* build_payload on its own and within exchanges.                          *)
(***************************************************************************)
SpecPayloadExchange ==
    (Init \/ PayloadInit) /\ [][Next \/ PayloadNext]_vars

(***************************************************************************)
(* parse_response on its own and within exchanges.                         *)
(***************************************************************************)
SpecParseExchange ==
    (Init \/ ParseInit) /\ [][Next \/ ParseNext]_vars

(***************************************************************************)
(* An exchange whose fetches all return an empty activity collection and   *)
(* whose task is cancelled while it waits between two polls.               *)
(***************************************************************************)
\* a slip: the poller catches the cancellation and leaves the loop, and
\* query goes on to parse what was collected
CancelEndsLoop(p) ==
    /\ pc[p] = "sleep"
    /\ Raise(p, parse_response(PollReturn(collected_data[p],
                                          current_watermark[p])).error)
    /\ UNCHANGED <<directline_client, args, conversation_id, current_watermark,
                   collected_data, polls, result, calls, fetched, reported,
                   fnVars,
                   toolVars>>

\* line 145: the task is cancelled during asyncio.sleep(1); neither
\* post_message_and_poll nor query catches anything
Cancel(p) ==
    /\ pc[p] = "sleep"
    /\ Raise(p, CancelledError)
    /\ UNCHANGED <<directline_client, args, conversation_id, current_watermark,
                   collected_data, polls, result, calls, fetched, reported,
                   fnVars,
                   toolVars>>

\* the response is {"activities": []}, with or without a watermark
EmptyCollection(data) ==
    /\ "activities" \in DOMAIN data
    /\ data.activities = <<>>

\* get_activities returns an empty activity collection
GetEmptyActivities(p) ==
    /\ GetActivities(p)
    /\ EmptyCollection(fetched'[p])

EmptyPollNext ==
    \E p \in Procs :
        \/ StartNotInitialized(p)
        \/ StartConversation(p)
        \/ StartConversationFails(p)
        \/ PostNotInitialized(p)
        \/ PostActivity(p)
        \/ PostActivityFails(p)
        \/ GetEmptyActivities(p)
        \/ GetActivitiesFails(p)
        \/ Sleep(p)
        \/ Cancel(p)

SpecEmptyPoll == Init /\ [][EmptyPollNext]_vars

(***************************************************************************)
(* Exchanges whose turn is ended by batches without a bot text: the        *)
(* DynamicPlanFinished event and bot messages that carry no text.          *)
(***************************************************************************)
\* a bot message with no text that carries actions and an adaptive card
CardBotMessage ==
    [type |-> "message", from |-> [id |-> "bot1", role |-> "bot"],
     suggestedActions |-> [actions |-> <<ActionA>>],
     attachments |-> <<Card("card1")>>]

TurnEndActivities ==
    {PlanFinishedEvent, UserEcho, BareBotMessage, CardBotMessage}

TurnEndResponses ==
    {a @@ w : a \in {EmptyDict} \cup
                    {[activities |-> b] : b \in SeqUpTo(TurnEndActivities, MaxBatch)},
              w \in {EmptyDict} \cup
                    {[watermark |-> x] : x \in ServerWatermarks}}

GetTurnEndActivities(p) == GetActivitiesFrom(p, TurnEndResponses)

TurnEndNext ==
    \E p \in Procs :
        \/ StartNotInitialized(p)
        \/ StartConversation(p)
        \/ StartConversationFails(p)
        \/ PostNotInitialized(p)
        \/ PostActivity(p)
        \/ PostActivityFails(p)
        \/ GetTurnEndActivities(p)
        \/ GetActivitiesFails(p)
        \/ Sleep(p)

SpecTurnEnd == Init /\ [][TurnEndNext]_vars

(***************************************************************************)
(* main.py: the query_agent tool, query_copilot_agent under it and the     *)
(* exchange it runs.  A message is the sequence of the parts the code      *)
(* concatenates.                                                           *)
(***************************************************************************)
CardNote ==
    "(Note: This response contains an adaptive card that can't be fully displayed in text format.)"

ActionsHeading == "## Suggested Actions"

AgentNotInitializedMessage == "Error: Copilot agent is not initialized"

ServerNotInitializedMessage ==
    "Error: Copilot Studio agent is not initialized. Check server logs for details."

QueryFailedPrefix == "Error querying Copilot Studio agent: "

\* the truth value of response["adaptive_card"]: None and {} are false
CardTruthy(card) == card \notin {None, "{}"}

\* line 105-107: one line for every action that has a title and a value
ActionTitles(actions) ==
    LET listed == SelectSeq(actions, LAMBDA action :
                      "title" \in DOMAIN action /\ "value" \in DOMAIN action)
    IN  [i \in 1..Len(listed) |-> listed[i].title]

\* result.strip() of the parts joined: an empty text leaves nothing in front
Strip(parts) == SelectSeq(parts, LAMBDA part : part # "")

\* query_copilot_agent line 94-114: what it returns for the result of query
query_copilot_agent_return(res) ==
    LET note == IF CardTruthy(res.adaptive_card) THEN <<CardNote>> ELSE <<>>
        actions == IF res.suggested_actions # <<>>
                   THEN <<ActionsHeading>> \o ActionTitles(res.suggested_actions)
                   ELSE <<>>
    IN  [message |-> Strip(<<res.text>> \o note \o actions),
         conversation_id |-> res.conversation_id,
         watermark |-> res.watermark]

\* query_copilot_agent line 79-83
AgentNotInitializedResponse ==
    [message |-> <<AgentNotInitializedMessage>>,
     conversation_id |-> None,
     watermark |-> None]

\* query_agent line 148-153 and 167-172
ToolError(message) ==
    [status |-> "error", message |-> message,
     conversation_id |-> None, watermark |-> None]

\* query_agent line 160-165
ToolSuccess(response) ==
    [status |-> "success", message |-> response.message,
     conversation_id |-> response.conversation_id,
     watermark |-> response.watermark]

\* `except Exception` catches it: asyncio.CancelledError is a BaseException
IsException(e) == e # CancelledError

\* a slip: the except clause raises again, as query_copilot_agent's does
query_agent_return_reraised(ok, value) ==
    IF ok THEN ToolSuccess(value) ELSE EmptyDict

\* query_agent line 155-172: what the try statement returns when
\* query_copilot_agent returned value (ok) or raised value (not ok); <<>>
\* when the exception leaves query_agent
query_agent_return(ok, value) ==
    IF ok THEN ToolSuccess(value)
    ELSE IF IsException(value) THEN ToolError(<<QueryFailedPrefix, value>>)
    ELSE EmptyDict

\* what the tool call of exchange p has returned (<<>> as long as it has not)
tool_response(p) ==
    CASE pc[p] = "refused" ->
             IF ~server_initialized
             THEN ToolError(<<ServerNotInitializedMessage>>)
             ELSE query_agent_return(TRUE, AgentNotInitializedResponse)
      [] pc[p] = "done" ->
             query_agent_return(TRUE, query_copilot_agent_return(result[p]))
      [] pc[p] = "failed" -> query_agent_return(FALSE, error[p])
      [] OTHER -> EmptyDict

ToolActivities == {RichBotMessage, PlanFinishedEvent, UserEcho}

ToolResponses ==
    {a @@ w : a \in {EmptyDict} \cup
                    {[activities |-> b] : b \in SeqUpTo(ToolActivities, MaxBatch)},
              w \in {EmptyDict} \cup
                    {[watermark |-> x] : x \in ServerWatermarks}}

\* initialize_server line 27-59 and line 122: both globals set and True
\* returned, or False returned with the client set or not and no agent;
\* query_agent is called, and query_copilot_agent passes no message_data
ToolInit ==
    /\ ExchangeInit({1})
    /\ FnIdle
    /\ server_initialized \in BOOLEAN
    /\ server_initialized => directline_client
    /\ copilot_agent = server_initialized
    /\ \A p \in Procs : args[p].message_data = NoneDict

\* query_agent line 147-153, query_copilot_agent line 77-83: no exchange
ToolRefuses(p) ==
    /\ pc[p] = "query"
    /\ ~server_initialized \/ ~copilot_agent
    /\ pc' = [pc EXCEPT ![p] = "refused"]
    /\ UNCHANGED <<directline_client, args, conversation_id, current_watermark,
                   collected_data, polls, result, error, calls, fetched,
                   reported, fnVars, toolVars>>

\* query_agent line 157, query_copilot_agent line 87: copilot_agent.query runs
ToolQueries == server_initialized /\ copilot_agent

GetToolActivities(p) == GetActivitiesFrom(p, ToolResponses)

\* the agent of main.py always has its client: the two not-initialized steps
\* of query cannot be taken
ToolNext ==
    \E p \in Procs :
        \/ ToolRefuses(p)
        \/ ToolQueries /\ StartConversation(p)
        \/ ToolQueries /\ StartConversationFails(p)
        \/ ToolQueries /\ PostActivity(p)
        \/ ToolQueries /\ PostActivityFails(p)
        \/ ToolQueries /\ GetToolActivities(p)
        \/ ToolQueries /\ GetActivitiesFails(p)
        \/ ToolQueries /\ Sleep(p)

SpecTool == ToolInit /\ [][ToolNext]_vars

(***************************************************************************)
(* Two exchanges on one agent, their steps interleaved in any order.       *)
(***************************************************************************)
\* one exchange continues the conversation c1, the other starts one; each
\* is called with a watermark or without
ConcurrentInit ==
    /\ ExchangeInit({1, 2})
    /\ FnIdle
    /\ ToolIdle
    /\ directline_client
    /\ args[1].conversation_id = "c1"
    /\ args[2].conversation_id = None
    /\ \A p \in Procs : args[p].message_data = NoneDict

\* no activity or a bot message, with a watermark or without
ConcurrentResponses ==
    {a @@ w : a \in {[activities |-> <<>>], [activities |-> <<BotMessage>>]},
              w \in {EmptyDict} \cup
                    {[watermark |-> x] : x \in ServerWatermarks}}

GetConcurrentActivities(p) ==
    /\ polls[p] < MaxConcurrentPolls
    /\ GetActivitiesFrom(p, ConcurrentResponses)

ConcurrentStep(p) ==
    \/ StartConversation(p)
    \/ PostActivity(p)
    \/ GetConcurrentActivities(p)
    \/ Sleep(p)

ConcurrentNext == \E p \in Procs : ConcurrentStep(p)

SpecConcurrent == ConcurrentInit /\ [][ConcurrentNext]_vars

(***************************************************************************)
(* parse_response on batches of bot messages that differ in which of       *)
(* text, suggested actions and adaptive card they carry.                   *)
(***************************************************************************)
\* a bot message with no text, two actions and another adaptive card
OtherCardBotMessage ==
    [type |-> "message", from |-> [id |-> "bot1", role |-> "bot"],
     suggestedActions |-> [actions |-> <<ActionB, ActionA>>],
     attachments |-> <<Card("card2")>>]

\* a bot message whose adaptive card has no content
NoContentCardBotMessage ==
    [type |-> "message", from |-> [id |-> "bot1", role |-> "bot"],
     text |-> "Form",
     attachments |-> <<[contentType |-> AdaptiveCardType]>>]

FieldActivities ==
    {BotMessage, RichBotMessage, BareBotMessage, OtherCardBotMessage,
     NoContentCardBotMessage, UserIdBotRole}

FieldInputs ==
    {[data |-> [activities |-> b], watermark |-> w] :
         b \in SeqUpTo(FieldActivities, MaxParseBatch),
         w \in ParseWatermarks}

FieldInit ==
    /\ ExchangeInit({})
    /\ ToolIdle
    /\ fn = "parse_response"
    /\ fnArgs \in FieldInputs
    /\ fnRet = EmptyDict
    /\ fnDone = FALSE

SpecParseFields == FieldInit /\ [][ParseNext]_vars

(***************************************************************************)
(* The properties.  Each is stated from the specification's words, with    *)
(* its own reading of them, not with the operators that model the code.    *)
(***************************************************************************)
ActivitiesOf(data) == IF "activities" \in DOMAIN data THEN data.activities ELSE <<>>

\* a turn-completion signal, as the specification defines it
IsSignal(activity) ==
    \/ /\ activity.type = "event"
       /\ "name" \in DOMAIN activity
       /\ activity.name = "DynamicPlanFinished"
    \/ /\ activity.type = "message"
       /\ "from" \in DOMAIN activity
       /\ "role" \in DOMAIN activity.from
       /\ activity.from.role = "bot"

HasSignal(batch) == \E i \in DOMAIN batch : IsSignal(batch[i])

\* C1: the poller goes on after every fetched batch without a completion
\* signal and stops at the first batch that has one (a DynamicPlanFinished
\* event or a message of role bot); what it returns as data is that
\* response, whole and in order.
C1_StopsAtFirstSignalBatch ==
    \A p \in Procs :
        /\ (pc[p] \in {"poll", "sleep"} /\ polls[p] > 0) =>
               /\ ~HasSignal(ActivitiesOf(fetched[p]))
               /\ collected_data[p] = NoneDict
        /\ pc[p] = "done" =>
               /\ HasSignal(ActivitiesOf(fetched[p]))
               /\ collected_data[p] = fetched[p]
        /\ (polls[p] > 0 /\ HasSignal(ActivitiesOf(fetched[p]))) =>
               pc[p] \in {"done", "failed"}

\* the turn is completed at a second or later fetch by a batch whose signal
\* comes after an activity that is none
C1_Witness ==
    \E p \in Procs :
        /\ pc[p] = "done"
        /\ polls[p] >= 2
        /\ Len(collected_data[p].activities) = 2
        /\ ~IsSignal(collected_data[p].activities[1])
        /\ IsSignal(collected_data[p].activities[2])

\* the poller of exchange p has taken the caller's watermark as its cursor
PollerStarted(p) ==
    \E i \in DOMAIN calls[p] : calls[p][i].op = "post_activity" /\ calls[p][i].ok

\* the fetches of p whose response reported a watermark
Reporting(p) == {i \in DOMAIN reported[p] : "watermark" \in DOMAIN reported[p][i]}

\* the watermark of the last response that reported one, the caller's if none
LastReported(p) ==
    IF Reporting(p) = {} THEN args[p].watermark
    ELSE reported[p][CHOOSE i \in Reporting(p) : \A j \in Reporting(p) : j <= i].watermark

\* every value the cursor of p has had
CursorValues(p) ==
    {args[p].watermark} \cup {reported[p][i].watermark : i \in Reporting(p)}

\* p has just fetched a response
Fetched(p) == Len(reported'[p]) = Len(reported[p]) + 1

CursorIsLastReported ==
    \A p \in Procs : PollerStarted(p) => current_watermark[p] = LastReported(p)

AbsentKeepsCursor ==
    \A p \in Procs :
        (Fetched(p) /\ "watermark" \notin DOMAIN reported'[p][Len(reported'[p])])
            => current_watermark'[p] = current_watermark[p]

CursorFollowsResponse ==
    \A p \in Procs :
        (PollerStarted(p) /\ current_watermark'[p] # current_watermark[p])
            => /\ Fetched(p)
               /\ "watermark" \in DOMAIN reported'[p][Len(reported'[p])]
               /\ current_watermark'[p] = reported'[p][Len(reported'[p])].watermark

NeverBackToEarlierValue ==
    \A p \in Procs :
        (PollerStarted(p) /\ current_watermark'[p] # current_watermark[p])
            => current_watermark'[p] \notin CursorValues(p)

\* C2 as stated: after any sequence of fetches of one exchange the cursor is
\* the watermark of the last response that reported one (the caller's if none
\* did), a response without a watermark leaves it unchanged, and the cursor
\* never goes back to a value it had earlier.
C2_WatermarkMonotonic ==
    /\ []CursorIsLastReported
    /\ [][AbsentKeepsCursor /\ NeverBackToEarlierValue]_vars

\* C2 as amended: the cursor is the watermark of the last response that
\* reported one (the caller's if none did), a response without a watermark
\* leaves it unchanged, and the cursor changes only to the watermark the
\* response just fetched reports: it takes an earlier value again only when
\* a later response reports that value.
C2_CursorIsLastReported ==
    /\ []CursorIsLastReported
    /\ [][AbsentKeepsCursor /\ CursorFollowsResponse]_vars

\* a response with a watermark, then one without, and the cursor is the
\* former's, not the caller's
C2_Witness ==
    \E p \in Procs :
        /\ Len(reported[p]) >= 2
        /\ "watermark" \in DOMAIN reported[p][Len(reported[p]) - 1]
        /\ "watermark" \notin DOMAIN reported[p][Len(reported[p])]
        /\ current_watermark[p] = reported[p][Len(reported[p]) - 1].watermark
        /\ current_watermark[p] # args[p].watermark

Ops(p, op) == {i \in DOMAIN calls[p] : calls[p][i].op = op}

\* the conversation-id argument names a conversation
SuppliedNotNone(cid) == cid # "None"

SuppliedNotEmpty(cid) == cid # "None" /\ cid # ""

StartsExactlyWhenNoId(Supplied(_)) ==
    \A p \in Procs :
        /\ Cardinality(Ops(p, "start_conversation")) <= 1
        /\ Supplied(args[p].conversation_id) =>
               /\ Ops(p, "start_conversation") = {}
               /\ pc[p] = "done" =>
                      result[p].conversation_id = args[p].conversation_id
        /\ (~Supplied(args[p].conversation_id) /\ directline_client
            /\ pc[p] \notin {"off", "query"}) =>
               /\ Ops(p, "start_conversation") = {1}
               /\ pc[p] = "done" =>
                      /\ calls[p][1].ok
                      /\ result[p].conversation_id = calls[p][1].returned

\* C3 as stated: the wire client's start_conversation is called exactly when
\* the caller supplies no conversation_id, and then at most once; when one is
\* supplied no session is started and the result's conversation_id is the
\* supplied one, otherwise it is the one start_conversation returned.
C3_StartsExactlyWhenNoId == StartsExactlyWhenNoId(SuppliedNotNone)

\* C3 as amended: with a wire client configured, start_conversation is called
\* exactly when the caller supplies no conversation_id or an empty one, and
\* then once; when a non-empty one is supplied no session is started and the
\* result's conversation_id is the supplied one, otherwise it is the one
\* start_conversation returned.
C3_StartsExactlyWhenNoIdOrEmpty == StartsExactlyWhenNoId(SuppliedNotEmpty)

\* an exchange called with the empty conversation id has completed
C3_Witness ==
    \E p \in Procs :
        /\ pc[p] = "done"
        /\ args[p].conversation_id = ""
        /\ result[p].conversation_id \in MintedConversationIds

\* C4: the wire-client calls of one exchange come in the order
\* start_conversation (at most one, first), post_activity (exactly one), then
\* get_activities (one or more once the exchange completes): no fetch before
\* the post, no second post, and the post and every fetch name the same
\* conversation id.
C4_CallOrder ==
    \A p \in Procs :
        /\ Ops(p, "start_conversation") \subseteq {1}
        /\ Cardinality(Ops(p, "post_activity")) <= 1
        /\ \A i \in Ops(p, "post_activity") :
               \A j \in 1..(i - 1) : j \in Ops(p, "start_conversation")
        /\ \A i \in Ops(p, "get_activities") :
               \E j \in Ops(p, "post_activity") : j < i /\ calls[p][j].ok
        /\ \A i, j \in Ops(p, "post_activity") \cup Ops(p, "get_activities") :
               calls[p][i].conversation_id = calls[p][j].conversation_id
        /\ pc[p] = "done" =>
               /\ Cardinality(Ops(p, "post_activity")) = 1
               /\ Cardinality(Ops(p, "get_activities")) >= 1

\* a completed exchange that started a session, posted and fetched twice
C4_Witness ==
    \E p \in Procs :
        /\ pc[p] = "done"
        /\ Len(calls[p]) = 4
        /\ calls[p][1].op = "start_conversation"
        /\ calls[p][2].op = "post_activity"
        /\ calls[p][4].op = "get_activities"

\* C5: with no wire client configured the exchange makes no wire-client call
\* and can only fail, with the not-initialized exception, whether the caller
\* supplied a conversation id or not.
C5_NotInitializedNoCall ==
    ~directline_client =>
        \A p \in Procs :
            /\ calls[p] = <<>>
            /\ pc[p] \in {"off", "query", "failed"}
            /\ pc[p] = "failed" =>
                   error[p] = "DirectLine client is not initialized"
            /\ pc[p] = "query" =>
                   ENABLED (StartNotInitialized(p) \/ PostNotInitialized(p))

\* an exchange with no client has failed, called with a conversation id
C5_Witness ==
    \E p \in Procs :
        /\ ~directline_client
        /\ pc[p] = "failed"
        /\ error[p] = "DirectLine client is not initialized"
        /\ args[p].conversation_id = "c1"

\* C6: a wire-client call that failed is the last call of its exchange, and
\* the exchange has ended with that failure: no retry, no post after a failed
\* start, no fetch after a failed post, no fetch or parsing after a failed
\* fetch.
C6_FailurePropagates ==
    \A p \in Procs :
        /\ \A i \in DOMAIN calls[p] :
               ~calls[p][i].ok =>
                   /\ i = Len(calls[p])
                   /\ pc[p] = "failed"
                   /\ error[p] = TransportError
                   /\ result[p] = EmptyDict
                   /\ collected_data[p] = NoneDict
        /\ error[p] = TransportError =>
               /\ calls[p] # <<>>
               /\ ~calls[p][Len(calls[p])].ok

\* the second fetch of an exchange failed
C6_Witness ==
    \E p \in Procs :
        /\ pc[p] = "failed"
        /\ Cardinality(Ops(p, "get_activities")) = 2
        /\ ~calls[p][Len(calls[p])].ok

BuiltPayload == fn = "build_payload" /\ fnDone

HasCardResponse(message_data) == "adaptive_card_response" \in DOMAIN message_data

\* C7: called with a card-response value, build_payload returns a payload
\* whose value is that value and that has no text, whatever the message.
C7_CardResponseBecomesValue ==
    (BuiltPayload /\ HasCardResponse(fnArgs.message_data)) =>
        /\ "value" \in DOMAIN fnRet
        /\ fnRet.value = fnArgs.message_data.adaptive_card_response
        /\ "text" \notin DOMAIN fnRet

\* a card response sent along with a message that is not empty
C7_Witness ==
    /\ BuiltPayload
    /\ fnArgs.message = "hello"
    /\ fnArgs.message_data = [adaptive_card_response |-> "choice2", other |-> "x"]
    /\ fnRet.value = "choice2"

\* C8: called with no card-response value, build_payload returns a payload
\* whose text is the message and that has no value; every payload has
\* exactly one of text and value.
C8_MessageBecomesText ==
    BuiltPayload =>
        /\ ~HasCardResponse(fnArgs.message_data) =>
               /\ "text" \in DOMAIN fnRet
               /\ fnRet.text = fnArgs.message
               /\ "value" \notin DOMAIN fnRet
        /\ ("text" \in DOMAIN fnRet) # ("value" \in DOMAIN fnRet)

\* the empty message sent with a message_data that holds no card response
C8_Witness ==
    /\ BuiltPayload
    /\ fnArgs.message = ""
    /\ fnArgs.message_data = [other |-> "x"]
    /\ fnRet.text = ""

PayloadCarriesConversationId(Present(_)) ==
    /\ BuiltPayload =>
           IF Present(fnArgs.conversation_id)
           THEN /\ "conversationId" \in DOMAIN fnRet
                /\ fnRet.conversationId = fnArgs.conversation_id
           ELSE "conversationId" \notin DOMAIN fnRet
    /\ \A p \in Procs : \A i \in Ops(p, "post_activity") :
           /\ "conversationId" \in DOMAIN calls[p][i].activity
           /\ calls[p][i].activity.conversationId = calls[p][i].conversation_id
           /\ \A j \in Ops(p, "start_conversation") :
                  calls[p][i].conversation_id = calls[p][j].returned

\* C9 as stated: build_payload includes conversationId, equal to the given
\* id, when an id is given and omits it otherwise; every payload an exchange
\* posts carries the conversation id it is posted to, the one just returned
\* by start_conversation included.
C9_ConversationIdWhenGiven == PayloadCarriesConversationId(SuppliedNotNone)

\* C9 as amended: build_payload includes conversationId, equal to the given
\* id, when an id is given and is not empty, and omits it otherwise (for None
\* and for the empty string); every payload an exchange posts carries the
\* conversation id it is posted to, the one just returned by
\* start_conversation included.
C9_ConversationIdWhenNotEmpty == PayloadCarriesConversationId(SuppliedNotEmpty)

\* an exchange has posted to the conversation it has just started
C9_Witness ==
    \E p \in Procs :
        /\ Len(calls[p]) >= 2
        /\ calls[p][1].op = "start_conversation"
        /\ calls[p][2].op = "post_activity"
        /\ calls[p][2].activity.conversationId = calls[p][1].returned

ParsedBatch ==
    /\ fn = "parse_response"
    /\ fnDone
    /\ "data" \in DOMAIN fnArgs
    /\ "activities" \in DOMAIN fnArgs.data
    /\ "watermark" \in DOMAIN fnArgs

\* an activity the parser is to skip, as the specification defines it
ToSkip(activity) ==
    \/ activity.type # "message"
    \/ /\ "from" \in DOMAIN activity
       /\ "id" \in DOMAIN activity.from
       /\ activity.from.id = "user"
    \/ ~ /\ "from" \in DOMAIN activity
         /\ "role" \in DOMAIN activity.from
         /\ activity.from.role = "bot"

Content(res) == <<res.text, res.adaptive_card, res.suggested_actions>>

\* C10: the activities that are no message, or come from the id "user", or
\* not from the role "bot" change nothing: text, adaptive_card and
\* suggested_actions of the result are those of the batch with these
\* activities taken out, wherever they stood, and the defaults when no
\* other activity is left.
C10_SkippedActivitiesChangeNothing ==
    ParsedBatch =>
        LET kept == SelectSeq(fnArgs.data.activities, LAMBDA a : ~ToSkip(a))
            alone == parse_response([data |-> [activities |-> kept],
                                     watermark |-> fnArgs.watermark])
        IN  /\ fnRet.ok
            /\ Content(fnRet.value) = Content(alone.value)
            /\ kept = <<>> => Content(fnRet.value) = <<"", "None", <<>>>>

\* a skipped activity with a text of its own stands last, after a bot message
\* whose text the result has
C10_Witness ==
    /\ ParsedBatch
    /\ Len(fnArgs.data.activities) = 3
    /\ ~ToSkip(fnArgs.data.activities[1])
    /\ ToSkip(fnArgs.data.activities[2])
    /\ fnArgs.data.activities[3] = UserIdBotRole
    /\ fnRet.value.text = "Hi"

\* the positions of a batch whose activity is not skipped and carries a text
TextBearing(batch) ==
    {i \in DOMAIN batch : ~ToSkip(batch[i]) /\ "text" \in DOMAIN batch[i]}

\* the text of the last of them, the default when there is none
LastText(batch) ==
    IF TextBearing(batch) = {} THEN ""
    ELSE batch[CHOOSE i \in TextBearing(batch) :
                   \A j \in TextBearing(batch) : j <= i].text

\* C11: the text of the result is the text of the last activity of the
\* batch, in batch order, that is not skipped and carries a text (the empty
\* default when there is none); of two bot messages with different texts it
\* is the second's.
C11_LastTextWins ==
    ParsedBatch =>
        /\ fnRet.ok
        /\ fnRet.value.text = LastText(fnArgs.data.activities)

\* two bot messages with different texts, then one without a text: the
\* result has the second's text
C11_Witness ==
    /\ ParsedBatch
    /\ fnArgs.data.activities = <<BotMessage, RichBotMessage, BareBotMessage>>
    /\ fnRet.value.text = "Bye"

\* C12: the watermark of the result of an exchange is the poller's final
\* cursor, the watermark of the last response that reported one up to the
\* fetch that completed the turn (the caller's if none did), whatever the
\* activities are; parse_response returns the watermark it is given.
C12_ResultWatermarkIsFinalCursor ==
    /\ \A p \in Procs :
           pc[p] = "done" =>
               /\ result[p].watermark = current_watermark[p]
               /\ result[p].watermark = LastReported(p)
    /\ ParsedBatch =>
           /\ fnRet.ok
           /\ fnRet.value.watermark = fnArgs.watermark

\* the response that completed the turn reported no watermark and the
\* result has the one an earlier response reported, not the caller's
C12_Witness ==
    \E p \in Procs :
        /\ pc[p] = "done"
        /\ "watermark" \notin DOMAIN fetched[p]
        /\ result[p].watermark = "2"
        /\ args[p].watermark = "1"

\* parse_response has returned or raised
Parsed == fn = "parse_response" /\ fnDone

\* there is no activity collection to parse: the response is absent (None
\* or empty), or it has no data, or its data is None or has no activities
NoActivityCollection(response_data) ==
    \/ "data" \notin DOMAIN response_data
    \/ "activities" \notin DOMAIN response_data.data

\* C13: with no activity collection to parse, parse_response raises the
\* invalid-response exception and returns no result.
C13_NoActivitiesIsInvalidResponse ==
    (Parsed /\ NoActivityCollection(fnArgs)) =>
        /\ ~fnRet.ok
        /\ "value" \notin DOMAIN fnRet
        /\ fnRet.error = "Invalid response from DirectLine Bot"

\* exchange p started a session, every fetch it made returned, and it has
\* left the poll loop
LeftLoopAfterSessionStart(p) ==
    /\ Ops(p, "start_conversation") # {}
    /\ Ops(p, "get_activities") # {}
    /\ \A i \in Ops(p, "get_activities") : calls[p][i].ok
    /\ pc[p] \notin {"poll", "sleep"}

\* C14 as stated: after a session start and fetches that all returned an
\* empty activity collection, the exchange whose poll loop is ended by a
\* cancellation has failed with the invalid-response exception.
C14_CancelledEmptyPollIsInvalidResponse ==
    \A p \in Procs :
        LeftLoopAfterSessionStart(p) =>
            /\ pc[p] = "failed"
            /\ error[p] = "Invalid response from DirectLine Bot"

\* C14 as amended: after a session start and fetches that all returned an
\* empty activity collection the exchange never completes by itself; the
\* exchange whose poll loop is ended by a cancellation at its wait has
\* failed with that cancellation and has no result, and no exchange fails
\* with the invalid-response exception.
C14_CancelledEmptyPollIsCancelled ==
    \A p \in Procs :
        /\ LeftLoopAfterSessionStart(p) =>
               /\ pc[p] = "failed"
               /\ error[p] = "CancelledError"
               /\ result[p] = EmptyDict
               /\ collected_data[p] = NoneDict
        /\ pc[p] # "done"
        /\ error[p] # "Invalid response from DirectLine Bot"

\* a session was started, two fetches returned nothing and the wait after
\* the second was cancelled
C14_Witness ==
    \E p \in Procs :
        /\ LeftLoopAfterSessionStart(p)
        /\ polls[p] = 2
        /\ EmptyCollection(fetched[p])
        /\ error[p] = "CancelledError"

\* a bot message, as the specification defines it
IsBotMessage(activity) ==
    /\ activity.type = "message"
    /\ "from" \in DOMAIN activity
    /\ "role" \in DOMAIN activity.from
    /\ activity.from.role = "bot"

\* the only completion signals of the batch are DynamicPlanFinished events
EventOnlySignal(batch) ==
    /\ HasSignal(batch)
    /\ \A i \in DOMAIN batch : ~IsBotMessage(batch[i])

\* the batch has a completion signal and none of its bot messages has a text
NoBotText(batch) ==
    /\ HasSignal(batch)
    /\ \A i \in DOMAIN batch :
           IsBotMessage(batch[i]) => "text" \notin DOMAIN batch[i]

\* exchange p has succeeded
Succeeded(p) == pc[p] = "done" /\ error[p] = ""

EmptyResult(res) ==
    /\ res.text = ""
    /\ res.adaptive_card = "None"
    /\ res.suggested_actions = <<>>

\* C15 as stated: the exchange whose poller is ended by a batch whose only
\* completion signal is the DynamicPlanFinished event, or whose bot messages
\* carry no text, succeeds with empty text, no adaptive card and empty
\* suggested actions.
C15_NoBotTextIsEmptyResult ==
    \A p \in Procs :
        (polls[p] > 0 /\ (\/ EventOnlySignal(ActivitiesOf(fetched[p]))
                          \/ NoBotText(ActivitiesOf(fetched[p])))) =>
            /\ Succeeded(p)
            /\ EmptyResult(result[p])

\* C15 as amended: the exchange whose poller is ended by a batch whose only
\* completion signal is the DynamicPlanFinished event succeeds with empty
\* text, no adaptive card and empty suggested actions; the exchange whose
\* poller is ended by a batch whose bot messages carry no text succeeds
\* with empty text.
C15_NoBotTextIsEmptyText ==
    \A p \in Procs :
        /\ (polls[p] > 0 /\ EventOnlySignal(ActivitiesOf(fetched[p]))) =>
               /\ Succeeded(p)
               /\ EmptyResult(result[p])
        /\ (polls[p] > 0 /\ NoBotText(ActivitiesOf(fetched[p]))) =>
               /\ Succeeded(p)
               /\ result[p].text = ""

\* the second fetch brought the user's own message and the
\* DynamicPlanFinished event, and the result is empty
C15_Witness ==
    \E p \in Procs :
        /\ polls[p] = 2
        /\ ActivitiesOf(fetched[p]) = <<UserEcho, PlanFinishedEvent>>
        /\ Succeeded(p)
        /\ EmptyResult(result[p])

\* the tool call of exchange p has ended
ToolEnded(p) == pc[p] \in {"refused", "done", "failed"}

\* the exchange of p failed: the server is not initialized, a wire-client
\* call failed, or query raised
ExchangeFailed(p) ==
    \/ ToolEnded(p) /\ ~server_initialized
    \/ \E i \in DOMAIN calls[p] : ~calls[p][i].ok
    \/ error[p] # ""

IsErrorEnvelope(r) ==
    /\ DOMAIN r = {"status", "message", "conversation_id", "watermark"}
    /\ r.status = "error"
    /\ r.message # <<>>
    /\ r.conversation_id = "None"
    /\ r.watermark = "None"

\* C16: every failure of an exchange (server not initialized, a wire-client
\* failure, an invalid response) is returned by the query_agent tool as an
\* envelope with status error, a message, and conversation_id and watermark
\* null; every tool call that has ended has returned an envelope, and one
\* with status success only when the exchange completed without failure.
C16_FailuresBecomeErrorEnvelopes ==
    \A p \in Procs :
        /\ ToolEnded(p) =>
               /\ tool_response(p) # <<>>
               /\ tool_response(p).status \in {"success", "error"}
        /\ ExchangeFailed(p) => IsErrorEnvelope(tool_response(p))
        /\ (ToolEnded(p) /\ tool_response(p).status = "success") =>
               /\ pc[p] = "done"
               /\ ~ExchangeFailed(p)
               /\ tool_response(p).conversation_id = result[p].conversation_id
               /\ tool_response(p).watermark = result[p].watermark

\* the second fetch of the exchange under the tool failed
C16_Witness ==
    \E p \in Procs :
        /\ Cardinality(Ops(p, "get_activities")) = 2
        /\ ~calls[p][Len(calls[p])].ok
        /\ tool_response(p).status = "error"
        /\ tool_response(p).message = <<QueryFailedPrefix, TransportError>>

\* C17: the result of every successful exchange has a watermark that is a
\* string, not null, and every tool response with status success carries a
\* watermark and a conversation_id that are not null.
C17_SuccessCarriesWatermark ==
    \A p \in Procs :
        /\ pc[p] = "done" => result[p].watermark # "None"
        /\ (ToolEnded(p) /\ tool_response(p).status = "success") =>
               /\ tool_response(p).watermark # "None"
               /\ tool_response(p).conversation_id # "None"

\* the fetches of p, in the order they were made
FetchCalls(p) == SelectSeq(calls[p], LAMBDA c : c.op = "get_activities")

\* the watermark of the last of the first n responses to p that reported
\* one, the watermark p was called with if none did
LastReportedAmong(p, n) ==
    LET reporting == {i \in 1..n : "watermark" \in DOMAIN reported[p][i]}
    IN  IF reporting = {} THEN args[p].watermark
        ELSE reported[p][CHOOSE i \in reporting :
                             \A j \in reporting : j <= i].watermark

\* q has a step to take
Running(q) ==
    \/ pc[q] \in {"query", "post", "sleep"}
    \/ pc[q] = "poll" /\ polls[q] < MaxConcurrentPolls

\* C18: of two exchanges running on one agent with their steps interleaved
\* in any order, each sends on every fetch the watermark given by its own
\* input watermark and the responses to its own earlier fetches, and returns
\* the one given by its input and all its responses; while one waits
\* between two polls the other can take its next step.
C18_ExchangesShareNothing ==
    \A p \in Procs :
        /\ Len(FetchCalls(p)) \in {Len(reported[p]), Len(reported[p]) + 1}
        /\ \A n \in DOMAIN FetchCalls(p) :
               FetchCalls(p)[n].watermark = LastReportedAmong(p, n - 1)
        /\ pc[p] = "done" =>
               result[p].watermark = LastReportedAmong(p, Len(reported[p]))
        /\ pc[p] = "sleep" =>
               \A q \in Procs \ {p} : Running(q) => ENABLED ConcurrentStep(q)

\* both exchanges have completed after two fetches each, one called with a
\* watermark and one without, with different watermarks in their results
C18_Witness ==
    /\ pc[1] = "done" /\ pc[2] = "done"
    /\ polls[1] = 2 /\ polls[2] = 2
    /\ args[1].watermark = "None" /\ args[2].watermark = "1"
    /\ result[1].watermark = "2"
    /\ result[2].watermark = "1"
    /\ FetchCalls(1)[2].watermark # FetchCalls(2)[2].watermark

\* p has just fetched a batch without a completion signal
FetchedNoSignal(p) == Fetched(p) /\ ~HasSignal(ActivitiesOf(fetched'[p]))

\* after a batch without a signal the poller does not return: it waits,
\* with nothing collected and no result
NoSignalThenWait ==
    \A p \in Procs :
        FetchedNoSignal(p) =>
            /\ pc'[p] = "sleep"
            /\ collected_data'[p] = NoneDict
            /\ result'[p] = <<>>
            /\ error'[p] = ""

\* the wait can only end in the next fetch
WaitThenFetch ==
    \A p \in Procs :
        (pc[p] = "sleep" /\ pc'[p] # "sleep") => pc'[p] = "poll"

\* every fetch is made with the cursor as it is then
FetchUsesCursor ==
    \A p \in Procs :
        Len(calls'[p]) = Len(calls[p]) + 1 =>
            LET call == calls'[p][Len(calls'[p])]
            IN  call.op = "get_activities" =>
                    call.watermark = current_watermark[p]

\* whatever the number of iterations so far, the waiting poller can go on
\* and the poller that has waited can fetch again; the exchange has
\* completed only when the last batch fetched has a signal
GoesOnUntilSignal ==
    \A p \in Procs :
        /\ pc[p] = "sleep" =>
               /\ polls[p] >= 1
               /\ ~HasSignal(ActivitiesOf(fetched[p]))
               /\ ENABLED Sleep(p)
        /\ (pc[p] = "poll" /\ polls[p] < MaxPolls) => ENABLED GetActivities(p)
        /\ pc[p] = "done" => HasSignal(ActivitiesOf(fetched[p]))

\* C20: after a fetched batch without a completion signal (an empty batch
\* and a response with no activities collection included) the poller does
\* not return: it waits and then fetches again with the current cursor,
\* any number of times; it returns only when a fetch yields a batch with a
\* signal, and an exchange none of whose fetches does never completes.
C20_PollsUntilSignal ==
    /\ []GoesOnUntilSignal
    /\ [][NoSignalThenWait /\ WaitThenFetch /\ FetchUsesCursor]_vars

\* the third fetch in a row without a signal, a response with no activities
\* collection, was made with a cursor that is not the caller's watermark,
\* and the poller waits again
C20_Witness ==
    \E p \in Procs :
        /\ pc[p] = "sleep"
        /\ polls[p] = 3
        /\ "activities" \notin DOMAIN fetched[p]
        /\ calls[p][Len(calls[p])].watermark = "2"
        /\ args[p].watermark = "1"

\* the actions an activity carries, none when it has no list
ActionsOf(activity) ==
    IF /\ "suggestedActions" \in DOMAIN activity
       /\ "actions" \in DOMAIN activity.suggestedActions
    THEN activity.suggestedActions.actions
    ELSE <<>>

\* the first attachment of the activity is an adaptive card
FirstIsAdaptiveCard(activity) ==
    /\ "attachments" \in DOMAIN activity
    /\ activity.attachments # <<>>
    /\ "contentType" \in DOMAIN activity.attachments[1]
    /\ activity.attachments[1].contentType =
           "application/vnd.microsoft.card.adaptive"

\* the content of that card, the empty object when it has none
FirstCardContent(activity) ==
    IF "content" \in DOMAIN activity.attachments[1]
    THEN activity.attachments[1].content
    ELSE "{}"

\* the positions of a batch whose activity is not skipped and carries a
\* non-empty list of actions
ActionBearing(batch) ==
    {i \in DOMAIN batch : ~ToSkip(batch[i]) /\ ActionsOf(batch[i]) # <<>>}

\* the positions of a batch whose activity is not skipped and has an
\* adaptive card as its first attachment
CardBearing(batch) ==
    {i \in DOMAIN batch : ~ToSkip(batch[i]) /\ FirstIsAdaptiveCard(batch[i])}

Last(positions) == CHOOSE i \in positions : \A j \in positions : j <= i

\* C21: the three fields of the result are overwritten independently, each
\* only by an activity that is not skipped and carries it: suggested_actions
\* is the last non-empty list of actions (a later bot message with no list
\* or an empty one keeps it), adaptive_card is the content of the first
\* attachment of the last activity whose first attachment is an adaptive
\* card (a later bot message without one keeps it, a card in a second
\* attachment is ignored), and text is the last text.
C21_FieldsOverwrittenIndependently ==
    ParsedBatch =>
        LET batch == fnArgs.data.activities
        IN  /\ fnRet.ok
            /\ fnRet.value.suggested_actions =
                   IF ActionBearing(batch) = {} THEN <<>>
                   ELSE ActionsOf(batch[Last(ActionBearing(batch))])
            /\ fnRet.value.adaptive_card =
                   IF CardBearing(batch) = {} THEN "None"
                   ELSE FirstCardContent(batch[Last(CardBearing(batch))])
            /\ fnRet.value.text = LastText(batch)

\* a bot message with text, actions and card, then one with an empty list
\* of actions and its card second, then one with a text only: the result
\* has the text of the third and the actions and the card of the first
C21_Witness ==
    /\ ParsedBatch
    /\ fnArgs.data.activities = <<RichBotMessage, BareBotMessage, BotMessage>>
    /\ fnRet.value.text = "Hi"
    /\ fnRet.value.suggested_actions = <<ActionA>>
    /\ fnRet.value.adaptive_card = "card1"

====
